---- MODULE Spec2Model ----
(***************************************************************************)
(* Model of src/main.rs: TableIterator, a pull iterator that decodes the   *)
(* lines of an XER-style export into Table values.  A line is a sequence   *)
(* of one-character strings; the line source is a sequence of              *)
(* io::Result<String> items and a cursor.                                  *)
(***************************************************************************)
EXTENDS Integers, Sequences, FiniteSets, TLC

VARIABLES file, pos, out, origin, last, given

vars == <<file, pos, out, origin, last, given>>

\* ------------------------------------------------------------------ bounds
MaxLines == 5
MaxGroups == 3
MaxGroupRows == 1
MaxRows == 2
MaxFields == 2
MaxLiveLines == 5

\* ------------------------------------------------------- text and lines
TAB == "\t"
TagT == <<"%", "T">>
TagF == <<"%", "F">>
TagR == <<"%", "R">>
TagE == <<"%", "E">>

Min(a, b) == IF a < b THEN a ELSE b

SeqsUpTo(S, n) == UNION {[1..k -> S] : k \in 0..n}

\* io::Result<String> as produced by Lines::next
Ok(s) == [ok |-> TRUE, text |-> s]
Err == [ok |-> FALSE, text |-> <<>>]

\* str::starts_with
starts_with(s, p) == Len(s) >= Len(p) /\ SubSeq(s, 1, Len(p)) = p

\* str::split(sep) collected: the fields between separators, never empty
RECURSIVE split(_, _)
split(s, sep) ==
  LET At == {i \in 1..Len(s) : s[i] = sep}
  IN IF At = {} THEN <<s>>
     ELSE LET i == CHOOSE m \in At : \A n \in At : m <= n
          IN <<SubSeq(s, 1, i - 1)>> \o split(SubSeq(s, i + 1, Len(s)), sep)

skip0(fields) == fields

\* Iterator::skip(1) on the fields of a line
skip1(fields) == SubSeq(fields, 2, Len(fields))

\* ------------------------------------------------------ writing a file
RECURSIVE Join(_)
Join(fields) ==
  IF fields = <<>> THEN <<>> ELSE <<TAB>> \o Head(fields) \o Join(Tail(fields))

WriteLine(tag, fields) == Ok(tag \o Join(fields))

RECURSIVE WriteRows(_)
WriteRows(rows) ==
  IF rows = <<>> THEN <<>>
  ELSE <<WriteLine(TagR, Head(rows))>> \o WriteRows(Tail(rows))

WriteTable(t) ==
  <<WriteLine(TagT, <<t.name>>), WriteLine(TagF, t.header)>> \o WriteRows(t.rows)

RECURSIVE WriteTables(_)
WriteTables(ts) ==
  IF ts = <<>> THEN <<>> ELSE WriteTable(Head(ts)) \o WriteTables(Tail(ts))

Preamble == Ok(<<"E", "R", "M">>)
EndLine == Ok(TagE)

\* ------------------------------------------------- TableIterator::next
not_exact_tag(line) == split(line, TAB)[1] # TagT

not_percent(line) == ~starts_with(line, <<"%">>)

\* the closure of skip_while: the line does not open a table
not_table_start(line) == ~starts_with(line, TagT)

is_tagged(line) == starts_with(line, <<"%">>)

\* the closure of take_while: the line is a row
is_row(line) == starts_with(line, TagR)

\* least element of a non-empty set of positions
First(S) == CHOOSE m \in S : \A n \in S : m <= n

skip_first(f, p) == p + 1

skip_while_ok(f, p) ==
  LET S == {i \in (p + 1)..Len(f) : f[i].ok /\ ~not_table_start(f[i].text)}
  IN IF S = {} THEN Len(f) + 1 ELSE First(S)

\* skip_while(..).nth(0) after map(Result::unwrap): the index of the first
\* item after p that is an Err (unwrap sees it first) or opens a table;
\* Len(f) + 1 when the source runs out
skip_while(f, p) ==
  LET S == {i \in (p + 1)..Len(f) : ~f[i].ok \/ ~not_table_start(f[i].text)}
  IN IF S = {} THEN Len(f) + 1 ELSE First(S)

\* take_while: the index of the first item after p that is an Err or is
\* not a row; that item is pulled from the source; Len(f) + 1 when the
\* source runs out
take_while(f, p) ==
  LET S == {i \in (p + 1)..Len(f) : ~f[i].ok \/ ~is_row(f[i].text)}
  IN IF S = {} THEN Len(f) + 1 ELSE First(S)

by_ref_clone(f, p, n) == p

by_ref_rewind(f, p, n) == IF n > Len(f) THEN 0 ELSE n

by_ref_peek(f, p, n) == Min(n, Len(f)) - 1

\* by_ref: the adaptors pull from self.iter itself, so the cursor ends on
\* the last item pulled (n may be Len(f) + 1: the final None)
by_ref(f, p, n) == Min(n, Len(f))

nth0(fields) == [some |-> TRUE, v |-> fields[1]]

\* split('\t').nth(1)
nth1(fields) ==
  IF Len(fields) >= 2 THEN [some |-> TRUE, v |-> fields[2]]
  ELSE [some |-> FALSE, v |-> <<>>]

table_name(text) == nth1(split(text, TAB))

table_header(text) == skip1(split(text, TAB))

table_rows_fit(f, h, k) ==
  [r \in 1..(k - h - 1) |->
     LET row == skip1(split(f[h + r].text, TAB))
         w == Len(table_header(f[h].text))
     IN SubSeq(row, 1, Min(Len(row), w))]

RECURSIVE table_rows(_, _, _)
table_rows(f, h, k) ==
  IF h + 1 >= k THEN <<>>
  ELSE <<skip1(split(f[h + 1].text, TAB))>> \o table_rows(f, h + 1, k)

Table(n, h, r) == [name |-> n, header |-> h, rows |-> r]
NoTable == Table(<<>>, <<>>, <<>>)

Ret(r, s, t, i, p) == [ret |-> r, site |-> s, table |-> t, tline |-> i, pos |-> p]

\* the outcome of one call made with the cursor at p
nextResult(f, p) ==
  LET i == skip_while(f, p)
      h == i + 1
  IN IF i > Len(f) THEN Ret("None", "nth", NoTable, 0, by_ref(f, p, i))
     ELSE IF ~f[i].ok THEN Ret("Panic", "Result::unwrap", NoTable, 0, by_ref(f, p, i))
     ELSE IF ~table_name(f[i].text).some
          THEN Ret("Panic", "Option::unwrap", NoTable, i, by_ref(f, p, i))
     ELSE IF h > Len(f) THEN Ret("None", "next", NoTable, i, by_ref(f, p, h))
     ELSE IF ~f[h].ok THEN Ret("Panic", "Result::unwrap", NoTable, i, by_ref(f, p, h))
     ELSE LET k == take_while(f, h)
          IN IF k <= Len(f) /\ ~f[k].ok
             THEN Ret("Panic", "Result::unwrap", NoTable, i, by_ref(f, p, k))
             ELSE Ret("Some",
                      "",
                      Table(table_name(f[i].text).v,
                            table_header(f[h].text),
                            table_rows(f, h, k)),
                      i,
                      by_ref(f, p, k))

next ==
  /\ last.ret # "Panic"
  /\ LET r == nextResult(file, pos)
     IN /\ pos' = r.pos
        /\ last' = [ret |-> r.ret, site |-> r.site, from |-> pos]
        /\ out' = IF r.ret = "Some" THEN Append(out, r.table) ELSE out
        /\ origin' = IF r.ret = "Some" THEN Append(origin, r.tline) ELSE origin
  /\ UNCHANGED <<file, given>>

\* ------------------------------------------------------- specifications
Fresh ==
  /\ pos = 0
  /\ out = <<>>
  /\ origin = <<>>
  /\ last = [ret |-> "Init", site |-> "", from |-> 0]

LineVocab ==
  { Preamble,
    WriteLine(TagT, <<<<"a">>>>),
    WriteLine(TagT, <<>>),
    WriteLine(TagF, <<<<"x">>>>),
    WriteLine(TagR, <<<<"1">>, <<"2">>>>),
    WriteLine(TagT, <<<<>>>>),
    Ok(<<"%", "T", "X", TAB, "a">>),
    Ok(<<"%", "R", "z">>),
    EndLine,
    Err }

Init ==
  /\ \E k \in 0..MaxLines : file \in [1..k -> LineVocab]
  /\ given = <<>>
  /\ Fresh

Next == next

Spec == Init /\ [][Next]_vars

\* the caller keeps calling next() while a call can change anything; the
\* files are those over the lines that decide how a call ends
LiveVocab ==
  { WriteLine(TagT, <<<<"a">>>>),
    WriteLine(TagT, <<>>),
    WriteLine(TagF, <<<<"x">>>>) }

InitLive ==
  /\ \E k \in 0..MaxLiveLines : file \in [1..k -> LiveVocab]
  /\ given = <<>>
  /\ Fresh

SpecFair == InitLive /\ [][Next]_vars /\ WF_vars(next)

\* a preamble line, n well-formed groups, the end line
GroupNames == {<<"a">>, <<"b">>}
GroupHeaders == {<<<<"x">>>>, <<<<"x">>, <<"y">>>>}
GroupRowVals == {<<<<"1">>>>, <<<<"2">>, <<"3">>>>}
Groups ==
  {Table(n, h, r) : n \in GroupNames, h \in GroupHeaders,
                    r \in SeqsUpTo(GroupRowVals, MaxGroupRows)}

InitWF ==
  /\ given \in SeqsUpTo(Groups, MaxGroups)
  /\ file = <<Preamble>> \o WriteTables(given) \o <<EndLine>>
  /\ Fresh

SpecWF == InitWF /\ [][Next]_vars

\* one table written out and closed by the end line
Strings == {<<>>, <<"a">>, <<"a", "b">>}
FieldVals == {<<>>, <<"x">>}
Triples ==
  {Table(n, h, r) : n \in Strings, h \in SeqsUpTo(FieldVals, MaxFields),
                    r \in SeqsUpTo(SeqsUpTo(FieldVals, MaxFields), MaxRows)}

InitRT ==
  /\ given \in {<<t>> : t \in Triples}
  /\ file = WriteTables(given) \o <<EndLine>>
  /\ Fresh

SpecRT == InitRT /\ [][Next]_vars

\* ---------------------------------------------------- reading the claims
Called == last.ret # "Init"
LastOut == out[Len(out)]
LastOrigin == origin[Len(origin)]
Readable(a, b) == \A i \in a..b : file[i].ok
HasTag(i, tag) == file[i].ok /\ split(file[i].text, TAB)[1] = tag
StartsTag(i, tag) ==
  file[i].ok /\ Len(file[i].text) >= 2 /\ SubSeq(file[i].text, 1, 2) = tag

\* the last call met its first table-start line at line t, having read
\* nothing but readable lines on the way
OpensAt(t) ==
  /\ Called
  /\ t \in (last.from + 1)..Len(file)
  /\ Readable(last.from + 1, t)
  /\ StartsTag(t, TagT)
  /\ \A i \in (last.from + 1)..(t - 1) : ~StartsTag(i, TagT)

\* the last call yielded no table
NothingYielded == \A k \in 1..Len(origin) : origin[k] <= last.from

\* C1: a preamble line, n well-formed groups and the end line yield, by the
\* time next() returns None, exactly the n tables the groups describe, in
\* source order
C1_AllGroupsYielded == (last.ret = "None") => (out = given)

\* C2: a call that yields a table consumes its %T line, its header line and
\* its %R lines and nothing after them: the line that ends the rows is left
\* in the source
C2_StopLineNotConsumed ==
  (last.ret = "Some") => (pos = LastOrigin + 1 + Len(LastOut.rows))

\* C3: once a %E line has been read by a call, no later call yields a table
C3_NothingAfterEnd ==
  (last.ret = "Some") => (\A i \in 1..last.from : ~HasTag(i, TagE))

\* C4: the yielded tables come from %T lines in increasing source order,
\* each from a different %T line, each named by its own %T line, and the
\* cursor never moves back over a line already read
C4_SourceOrder ==
  /\ \A i, j \in 1..Len(origin) : (i < j) => (origin[i] < origin[j])
  /\ \A i \in 1..Len(origin) :
       /\ origin[i] \in 1..pos
       /\ StartsTag(origin[i], TagT)
       /\ out[i].name = split(file[origin[i]].text, TAB)[2]
  /\ last.from <= pos

C4_Witness ==
  /\ Len(out) = 2
  /\ out[1].name # out[2].name
  /\ origin[2] > origin[1] + 2

\* C5: one table written as %T, %F, %R... and %E lines is read back as
\* exactly that table by the first call, and the call after it returns None
C5_RoundTrip ==
  Called => /\ last.ret # "Panic"
            /\ out = given
            /\ (last.ret = "None") => (last.from = Len(file))

C5_Witness ==
  /\ last.ret = "None"
  /\ out = given
  /\ Len(given[1].rows) = 2
  /\ given[1].rows[1] # given[1].rows[2]
  /\ Len(given[1].header) = 2

\* C6: a call made when no unread line starts a table (and every unread
\* line can be read) returns None without failing and yields nothing; on
\* the first call the table sequence is empty
C6_CleanExhaustion ==
  (/\ Called
   /\ Readable(last.from + 1, Len(file))
   /\ \A i \in (last.from + 1)..Len(file) : ~StartsTag(i, TagT))
  => /\ last.ret = "None"
     /\ pos = Len(file)
     /\ NothingYielded
     /\ (last.from = 0) => (out = <<>>)

C6_Witness ==
  /\ last.ret = "None"
  /\ last.from = 0
  /\ file = <<Preamble, EndLine>>
  /\ out = <<>>

\* C7: a %T line with a name that is the last line of the source makes the
\* call fail, not end cleanly
C7_MissingHeaderAtEnd ==
  \A t \in 1..Len(file) :
    (OpensAt(t) /\ Len(split(file[t].text, TAB)) >= 2 /\ t = Len(file))
    => (last.ret = "Panic")

\* C8: a %T line with a name followed by a readable line that is not a %F
\* line makes the call fail; no table takes its header from such a line
C8_HeaderTagChecked ==
  \A t \in 1..Len(file) :
    (/\ OpensAt(t)
     /\ Len(split(file[t].text, TAB)) >= 2
     /\ t < Len(file)
     /\ file[t + 1].ok
     /\ ~HasTag(t + 1, TagF))
    => (last.ret = "Panic")

\* C9: a %T line with fewer than two tab-delimited fields makes the call
\* fail at the name: no table is yielded, the call does not return None,
\* and the cursor stays on that line
C9_MissingName ==
  \A t \in 1..Len(file) :
    (OpensAt(t) /\ Len(split(file[t].text, TAB)) < 2)
    => /\ last.ret = "Panic"
       /\ last.site = "Option::unwrap"
       /\ pos = t
       /\ NothingYielded

C9_Witness ==
  /\ last.ret = "Panic"
  /\ last.site = "Option::unwrap"
  /\ file[pos] = WriteLine(TagT, <<>>)
  /\ Len(out) = 1

\* C10 as stated: a %R line met before any %T line by the first call makes
\* that call fail
C10_OrphanRowReported ==
  (/\ Called
   /\ last.from = 0
   /\ Len(file) >= 1
   /\ HasTag(1, TagR))
  => (last.ret = "Panic")

\* C10 as amended: a %R line met before any %T line is skipped like any
\* other line: it gives no failure and no row.  With no %T line left the
\* call returns None; otherwise the call goes on to the first %T line, and
\* a table it yields is the one opened there, its rows taken from the lines
\* after its header
C10_OrphanRowSkipped ==
  (/\ Called
   /\ last.from < Len(file)
   /\ HasTag(last.from + 1, TagR))
  => /\ (last.ret = "Panic") => (pos > last.from + 1)
     /\ (Readable(last.from + 1, Len(file))
         /\ \A i \in (last.from + 1)..Len(file) : ~StartsTag(i, TagT))
        => (last.ret = "None")
     /\ \A t \in 1..Len(file) :
          OpensAt(t) =>
            /\ pos >= t
            /\ (last.ret = "None") => (t = Len(file))
            /\ (last.ret = "Some") =>
                 /\ LastOrigin = t
                 /\ LastOut.name = split(file[t].text, TAB)[2]
                 /\ \A r \in 1..Len(LastOut.rows) :
                      /\ StartsTag(t + 1 + r, TagR)
                      /\ LET fs == split(file[t + 1 + r].text, TAB)
                         IN LastOut.rows[r] = SubSeq(fs, 2, Len(fs))

C10_Witness ==
  /\ last.ret = "Some"
  /\ last.from = 0
  /\ HasTag(1, TagR)
  /\ LastOrigin = 2
  /\ Len(LastOut.rows) = 1

\* the fields of line i after its tag
FieldsOf(i) ==
  LET fs == split(file[i].text, TAB) IN SubSeq(fs, 2, Len(fs))

\* C11: a %T line with a name and its %F line, followed at once by a line
\* that starts the next table, by a %E line or by the end of the input,
\* yield a table with that name, that header and no rows
C11_ZeroRows ==
  \A t \in 1..Len(file) :
    (/\ OpensAt(t)
     /\ Len(split(file[t].text, TAB)) >= 2
     /\ t < Len(file)
     /\ HasTag(t + 1, TagF)
     /\ \/ t + 1 = Len(file)
        \/ StartsTag(t + 2, TagT)
        \/ HasTag(t + 2, TagE))
    => /\ last.ret = "Some"
       /\ LastOrigin = t
       /\ LastOut = Table(split(file[t].text, TAB)[2], FieldsOf(t + 1), <<>>)

C11_Witness ==
  /\ last.ret = "Some"
  /\ LastOrigin = 2
  /\ Len(file) = 4
  /\ HasTag(3, TagF)
  /\ HasTag(4, TagE)
  /\ LastOut.rows = <<>>
  /\ LastOut.header = <<<<"x">>>>

\* C12: a %R line with fewer or more value fields than the header has is
\* accepted: the call does not fail and the row is the line's fields from
\* index 1 on, neither padded nor cut to the header's width
C12_RowWidthFree ==
  Called =>
    /\ last.ret # "Panic"
    /\ Len(out) = 1
    /\ Len(out[1].rows) = Len(given[1].rows)
    /\ \A r \in 1..Len(out[1].rows) :
         /\ out[1].rows[r] = FieldsOf(2 + r)
         /\ Len(out[1].rows[r]) = Len(given[1].rows[r])

C12_Witness ==
  /\ last.ret = "Some"
  /\ Len(out[1].header) = 1
  /\ Len(out[1].rows) = 2
  /\ Len(out[1].rows[1]) = 0
  /\ Len(out[1].rows[2]) = 2

\* C13: the first call discards every leading line that does not start
\* with %T, however many there are, without failing on them, and the table
\* it yields is the one opened by the first %T line of the source
C13_PreambleSkip ==
  \A t \in 1..Len(file) :
    (last.from = 0 /\ OpensAt(t)) =>
      /\ pos >= t
      /\ (last.ret = "None") => (t = Len(file))
      /\ (/\ Len(split(file[t].text, TAB)) >= 2
          /\ t < Len(file)
          /\ Readable(t + 1, Len(file)))
         => /\ last.ret = "Some"
            /\ origin = <<t>>
            /\ Len(out) = 1
            /\ out[1].name = split(file[t].text, TAB)[2]
            /\ out[1].header = FieldsOf(t + 1)

C13_Witness ==
  /\ last.ret = "Some"
  /\ last.from = 0
  /\ origin = <<3>>
  /\ file[1] = Preamble
  /\ ~StartsTag(2, TagT)
  /\ Len(out[1].rows) = 1

\* C14: a call that reads a line the source failed to deliver aborts on
\* that line: it yields no table and does not return None, so a call that
\* returns has read readable lines only
C14_SourceErrorPropagates ==
  /\ (last.ret \in {"Some", "None"}) => Readable(last.from + 1, pos)
  /\ (last.ret = "Panic" /\ last.site = "Result::unwrap")
     => (~file[pos].ok /\ NothingYielded /\ Readable(last.from + 1, pos - 1))
  /\ (Called /\ pos > last.from /\ ~file[pos].ok)
     => (last.ret = "Panic" /\ last.site = "Result::unwrap")

C14_Witness ==
  /\ last.ret = "Panic"
  /\ last.site = "Result::unwrap"
  /\ pos = 4
  /\ ~file[4].ok
  /\ HasTag(1, TagT)
  /\ HasTag(2, TagF)
  /\ HasTag(3, TagR)
  /\ out = <<>>

C16_NameNonEmpty == \A i \in 1..Len(out) : out[i].name # <<>>

\* C17: the rows of every yielded table are the lines of the maximal run
\* of row lines right after its header line, in file order; the runs of
\* two tables share no line, so no row comes from before the table's %T
\* line or from after the line that ends its run
C17_RowsOwnRun ==
  /\ \A i \in 1..Len(out) :
       LET t == origin[i]
           n == Len(out[i].rows)
       IN /\ t + 1 + n <= Len(file)
          /\ \A r \in 1..n :
               /\ StartsTag(t + 1 + r, TagR)
               /\ out[i].rows[r] = FieldsOf(t + 1 + r)
          /\ (t + 1 + n < Len(file)) => ~StartsTag(t + 2 + n, TagR)
  /\ \A i, j \in 1..Len(out) :
       (i < j) => (origin[i] + 1 + Len(out[i].rows) < origin[j])

C17_Witness ==
  /\ last.ret = "Some"
  /\ StartsTag(1, TagR)
  /\ origin = <<2>>
  /\ Len(file) = 5
  /\ Len(out[1].rows) = 2
  /\ out[1].rows[1] # out[1].rows[2]

\* a readable line that starts neither a table nor a row
Junk(i) == file[i].ok /\ ~StartsTag(i, TagT) /\ ~StartsTag(i, TagR)

\* the call before the last one yielded a table and stopped on line s
YieldedUpTo(s) ==
  \E i \in 1..Len(out) : origin[i] + 2 + Len(out[i].rows) = s

\* C18: when the rows of a yielded table are followed by one or more lines
\* that start neither a table nor a row, the next call skips them without
\* failing and yields the table opened by the next %T line, with its own
\* name, header and rows
C18_JunkBetweenTables ==
  \A t \in 1..Len(file) :
    (/\ Called
     /\ last.from >= 1
     /\ YieldedUpTo(last.from)
     /\ Junk(last.from)
     /\ OpensAt(t)
     /\ \A i \in (last.from + 1)..(t - 1) : Junk(i))
    => /\ pos >= t
       /\ (last.ret = "None") => (t = Len(file))
       /\ (/\ Len(split(file[t].text, TAB)) >= 2
           /\ t < Len(file)
           /\ Readable(t + 1, Len(file)))
          => /\ last.ret = "Some"
             /\ LastOrigin = t
             /\ LastOut.name = split(file[t].text, TAB)[2]
             /\ LastOut.header = FieldsOf(t + 1)
             /\ \A r \in 1..Len(LastOut.rows) :
                  LastOut.rows[r] = FieldsOf(t + 1 + r)

C18_Witness ==
  /\ last.ret = "Some"
  /\ origin = <<1, 4>>
  /\ file[3] = Preamble
  /\ out[1].name = <<>>
  /\ out[2].name = <<"a">>
  /\ out[2].header = <<<<"x">>>>

\* C19: next() returns None only with the source read to its end, and
\* from then on every call returns None again, yields nothing and leaves
\* the cursor where it is
C19_NoneIsSticky ==
  [][(last.ret = "None") =>
       /\ pos = Len(file)
       /\ last'.ret = "None"
       /\ out' = out
       /\ pos' = pos]_vars

C19_Witness ==
  /\ last.ret = "None"
  /\ last.from = Len(file)
  /\ Len(out) = 1
  /\ origin[1] + 2 + Len(out[1].rows) < Len(file)

\* the cursor moves forward only, a call that yields a table consumes at
\* least two lines, and n yielded tables have consumed at least 2n lines
C20_Forward ==
  /\ last.from <= pos
  /\ pos <= Len(file)
  /\ (last.ret = "Some") => (pos >= last.from + 2)
  /\ 2 * Len(out) <= pos

\* C20 as stated: the cursor only moves forward, a yielding call consumes
\* at least two lines, at most L/2 tables are yielded from L lines, and
\* the calls reach None
C20_ReachesNone == []C20_Forward /\ <>(last.ret = "None")

\* C20 as amended: the same, the calls reaching None or a failure
C20_Terminates == []C20_Forward /\ <>(last.ret \in {"None", "Panic"})

C20_Witness ==
  /\ last.ret = "None"
  /\ Len(file) = 5
  /\ Len(out) = 2
  /\ pos = 5

TypeOK ==
  /\ pos \in 0..Len(file)
  /\ Len(out) = Len(origin)
  /\ last.ret \in {"Init", "Some", "None", "Panic"}
====
